---------------------------- MODULE Spec2Model ----------------------------
(***************************************************************************)
(* LandmarkCostFunction2D (cartographer, optimization/cost_functions):     *)
(* the residual of one landmark observation between two trajectory nodes.  *)
(*                                                                         *)
(* Numbers.  A double is modelled exactly as an element of Q(sqrt 2): the  *)
(* triple <<a, b, d>> stands for (a + b*sqrt(2)) / d with d > 0 and        *)
(* gcd(a, b, d) = 1.  The triple <<0, 0, 0>> stands for a non-finite       *)
(* double (an infinity or a NaN): it is what a division by zero yields     *)
(* and it absorbs every later operation.                                   *)
(***************************************************************************)
EXTENDS Integers, Sequences, FiniteSets, TLC

NULL == <<>>

----------------------------------------------------------------------------
(* Exact arithmetic in Q(sqrt 2).                                          *)

Abs(n) == IF n < 0 THEN -n ELSE n

RECURSIVE GCD(_, _)
GCD(m, n) == IF n = 0 THEN m ELSE GCD(n, m % n)

NaN == <<0, 0, 0>>

IsNaN(x) == x[3] = 0

Norm(a, b, d) ==
    IF d = 0 THEN NaN
    ELSE LET g == GCD(GCD(Abs(a), Abs(b)), Abs(d))
             s == IF d < 0 THEN -1 ELSE 1
         IN  <<(s * a) \div g, (s * b) \div g, (s * d) \div g>>

N(k) == <<k, 0, 1>>

Frac(n, d) == Norm(n, 0, d)

Zero == N(0)

One == N(1)

HalfSqrt2 == <<0, 1, 2>>

Add(x, y) ==
    IF IsNaN(x) \/ IsNaN(y) THEN NaN
    ELSE Norm(x[1] * y[3] + y[1] * x[3], x[2] * y[3] + y[2] * x[3], x[3] * y[3])

Neg(x) == <<-x[1], -x[2], x[3]>>

Sub(x, y) == Add(x, Neg(y))

Mul(x, y) ==
    IF IsNaN(x) \/ IsNaN(y) THEN NaN
    ELSE Norm(x[1] * y[1] + 2 * x[2] * y[2], x[1] * y[2] + x[2] * y[1], x[3] * y[3])

\* x / y; a zero divisor gives a non-finite double.
Div(x, y) ==
    IF IsNaN(x) \/ IsNaN(y) THEN NaN
    ELSE Norm((x[1] * y[1] - 2 * x[2] * y[2]) * y[3],
              (x[2] * y[1] - x[1] * y[2]) * y[3],
              x[3] * (y[1] * y[1] - 2 * y[2] * y[2]))

Sgn(n) == IF n > 0 THEN 1 ELSE IF n < 0 THEN -1 ELSE 0

\* The sign of a finite number a + b*sqrt(2).
Sign(x) ==
    LET a == x[1]
        b == x[2]
    IN  IF b = 0 THEN Sgn(a)
        ELSE IF a = 0 THEN Sgn(b)
        ELSE IF Sgn(a) = Sgn(b) THEN Sgn(a)
        ELSE IF a * a > 2 * b * b THEN Sgn(a) ELSE Sgn(b)

\* x < y on doubles: false as soon as an operand is non-finite.
Less(x, y) == ~IsNaN(x) /\ ~IsNaN(y) /\ Sign(Sub(x, y)) = -1

AbsN(x) == IF IsNaN(x) THEN NaN ELSE IF Sign(x) = -1 THEN Neg(x) ELSE x

ISqrt(n) == CHOOSE r \in 0..n : r * r = n

\* The square root, on the rationals that are squares of rationals.
Sqrt(x) == IF IsNaN(x) THEN NaN ELSE <<ISqrt(x[1]), 0, ISqrt(x[3])>>

\* Angles are counted in units of 45 degrees.
Sin45(k) ==
    CASE k % 8 = 0 -> Zero
      [] k % 8 = 1 -> HalfSqrt2
      [] k % 8 = 2 -> One
      [] k % 8 = 3 -> HalfSqrt2
      [] k % 8 = 4 -> Zero
      [] k % 8 = 5 -> Neg(HalfSqrt2)
      [] k % 8 = 6 -> Neg(One)
      [] k % 8 = 7 -> Neg(HalfSqrt2)

\* sin and cos of an angle given as a number of 45-degree units.
Sin(x) == IF IsNaN(x) THEN NaN ELSE CASE x[2] = 0 /\ x[3] = 1 -> Sin45(x[1])

Cos(x) == IF IsNaN(x) THEN NaN ELSE CASE x[2] = 0 /\ x[3] = 1 -> Sin45(x[1] + 2)

Acos(x) ==
    CASE x = One -> N(0)
      [] x = HalfSqrt2 -> N(1)
      [] x = Zero -> N(2)

----------------------------------------------------------------------------
(* Vectors <<x, y, z>> and quaternions <<w, x, y, z>> (Eigen).             *)

Vec(x, y, z) == <<N(x), N(y), N(z)>>

Cross(u, v) ==
    <<Sub(Mul(u[2], v[3]), Mul(u[3], v[2])),
      Sub(Mul(u[3], v[1]), Mul(u[1], v[3])),
      Sub(Mul(u[1], v[2]), Mul(u[2], v[1]))>>

VAdd(u, v) == <<Add(u[1], v[1]), Add(u[2], v[2]), Add(u[3], v[3])>>

VSub(u, v) == <<Sub(u[1], v[1]), Sub(u[2], v[2]), Sub(u[3], v[3])>>

VScale(s, v) == <<Mul(s, v[1]), Mul(s, v[2]), Mul(s, v[3])>>

QVec(q) == <<q[2], q[3], q[4]>>

QIdentity == <<One, Zero, Zero, Zero>>

QConj(q) == <<q[1], Neg(q[2]), Neg(q[3]), Neg(q[4])>>

QNeg(q) == <<Neg(q[1]), Neg(q[2]), Neg(q[3]), Neg(q[4])>>

\* Eigen: Quaternion * Quaternion (the Hamilton product).
QMul(a, b) ==
    <<Sub(Sub(Sub(Mul(a[1], b[1]), Mul(a[2], b[2])), Mul(a[3], b[3])), Mul(a[4], b[4])),
      Sub(Add(Add(Mul(a[1], b[2]), Mul(a[2], b[1])), Mul(a[3], b[4])), Mul(a[4], b[3])),
      Sub(Add(Add(Mul(a[1], b[3]), Mul(a[3], b[1])), Mul(a[4], b[2])), Mul(a[2], b[4])),
      Sub(Add(Add(Mul(a[1], b[4]), Mul(a[4], b[1])), Mul(a[2], b[3])), Mul(a[3], b[2]))>>

QDot(a, b) ==
    Add(Add(Add(Mul(a[1], b[1]), Mul(a[2], b[2])), Mul(a[3], b[3])), Mul(a[4], b[4]))

\* Eigen: Quaternion::normalized().
QNormalized(q) ==
    LET n == Sqrt(QDot(q, q))
    IN  <<Div(q[1], n), Div(q[2], n), Div(q[3], n), Div(q[4], n)>>

\* Eigen: Quaternion * Vector3 (QuaternionBase::_transformVector):
\*   uv = 2 * vec x v;  result = v + w * uv + vec x uv.
QRotate(q, v) ==
    LET uv == VScale(N(2), Cross(QVec(q), v))
    IN  VAdd(VAdd(v, VScale(q[1], uv)), Cross(QVec(q), uv))


----------------------------------------------------------------------------
(* The collaborators of cost_helpers.h, time.h and rigid_transform.h, as   *)
(* their contracts describe them (sections 3 and 4 of the specification).  *)

\* common::ToSeconds: a duration as a double number of seconds.
ToSeconds(duration) == N(duration)

\* 1 - 1e-5, the collinearity threshold of the slerp.
SlerpThreshold == Frac(99999, 100000)

\* Shortest-arc spherical interpolation of two unit quaternions.
SlerpQuaternions(start, end, factor) ==
    LET cos_theta == QDot(start, end)
        abs_cos_theta == AbsN(cos_theta)
        slerp == Less(abs_cos_theta, SlerpThreshold)
        theta == Acos(abs_cos_theta)
        sin_theta == Sin(theta)
        prev_scale == IF slerp THEN Div(Sin(Mul(Sub(One, factor), theta)), sin_theta)
                      ELSE Sub(One, factor)
        pos_scale == IF slerp THEN Div(Sin(Mul(factor, theta)), sin_theta)
                     ELSE factor
        next_scale == IF Less(cos_theta, Zero) THEN Neg(pos_scale) ELSE pos_scale
    IN  <<Add(Mul(prev_scale, start[1]), Mul(next_scale, end[1])),
          Add(Mul(prev_scale, start[2]), Mul(next_scale, end[2])),
          Add(Mul(prev_scale, start[3]), Mul(next_scale, end[3])),
          Add(Mul(prev_scale, start[4]), Mul(next_scale, end[4]))>>

\* Eigen::AngleAxis(yaw, UnitZ) as a quaternion.
AngleAxisZ(yaw) ==
    LET half == Div(yaw, N(2))
    IN  <<Cos(half), Zero, Zero, Sin(half)>>

\* The rotation of a 2D node pose <<x, y, yaw>> embedded in 3D.
NodeRotation(node_pose, gravity_alignment) ==
    QNormalized(QMul(AngleAxisZ(node_pose[3]), gravity_alignment))

\* The pose interpolator (section 4.1): slerp of the two node rotations and
\* linear interpolation of the two planar translations.
InterpolateNodes2D(prev_node_pose, prev_node_gravity_alignment, next_node_pose, next_node_gravity_alignment, interpolation_parameter) ==
    [rotation |->
        SlerpQuaternions(NodeRotation(prev_node_pose, prev_node_gravity_alignment),
                         NodeRotation(next_node_pose, next_node_gravity_alignment),
                         interpolation_parameter),
     translation |->
        <<Add(prev_node_pose[1],
              Mul(interpolation_parameter, Sub(next_node_pose[1], prev_node_pose[1]))),
          Add(prev_node_pose[2],
              Mul(interpolation_parameter, Sub(next_node_pose[2], prev_node_pose[2]))),
          Zero>>]

\* The relative transform error (section 4.2): the observed relative pose
\* against the relative pose of `end` seen from `start`; the rotation part is
\* twice the vector part of the relative rotation.
ComputeUnscaledError(relative_pose, start_rotation, start_translation, end_rotation, end_translation) ==
    LET R_i_inverse == QConj(start_rotation)
        delta == VSub(end_translation, start_translation)
        h_translation == QRotate(R_i_inverse, delta)
        h_rotation_inverse == QMul(QConj(end_rotation), start_rotation)
        difference == QMul(h_rotation_inverse, relative_pose.rotation)
        t == VSub(relative_pose.translation, h_translation)
    IN  <<t[1], t[2], t[3],
          Mul(N(2), difference[2]), Mul(N(2), difference[3]), Mul(N(2), difference[4])>>

\* The upper Cholesky factor U (U^T * U = A) of a row-major 3x3 matrix.
CholeskyUpper(A) ==
    LET l11 == Sqrt(A[1])
        l21 == Div(A[4], l11)
        l31 == Div(A[7], l11)
        l22 == Sqrt(Sub(A[5], Mul(l21, l21)))
        l32 == Div(Sub(A[8], Mul(l31, l21)), l22)
        l33 == Sqrt(Sub(Sub(A[9], Mul(l31, l31)), Mul(l32, l32)))
    IN  <<l11, l21, l31, Zero, l22, l32, Zero, Zero, l33>>

\* The covariance scaler (section 4.4): the two scalar weights, then the
\* square-root factor of the inverse covariance as a linear transform.
ScaleErrorWithCovariance(error, translation_weight, rotation_weight, inverse_covariance) ==
    LET U == CholeskyUpper(inverse_covariance)
        t == <<Mul(error[1], translation_weight), Mul(error[2], translation_weight),
               Mul(error[3], translation_weight)>>
    IN  <<Add(Add(Mul(U[1], t[1]), Mul(U[2], t[2])), Mul(U[3], t[3])),
          Add(Add(Mul(U[4], t[1]), Mul(U[5], t[2])), Mul(U[6], t[3])),
          Add(Add(Mul(U[7], t[1]), Mul(U[8], t[2])), Mul(U[9], t[3])),
          Mul(error[4], rotation_weight), Mul(error[5], rotation_weight),
          Mul(error[6], rotation_weight)>>

----------------------------------------------------------------------------
(* LandmarkCostFunction2D: construction and the steps of operator().       *)

\* Variant: the fraction of the interval that remains after the observation.
InterpolationParameterToNext(observation, prev_node, next_node) ==
    Div(ToSeconds(next_node.time - observation.time),
        ToSeconds(next_node.time - prev_node.time))

InterpolationParameter(observation, prev_node, next_node) ==
    Div(ToSeconds(observation.time - prev_node.time),
        ToSeconds(next_node.time - prev_node.time))

IdentityCovariance == <<One, Zero, Zero, Zero, One, Zero, Zero, Zero, One>>

\* Variant: the inverse covariance of the observation is dropped.
ConstructUnitCovariance(observation, prev_node, next_node) ==
    [landmark_to_tracking_transform |-> observation.landmark_to_tracking_transform,
     prev_node_gravity_alignment |-> prev_node.gravity_alignment,
     next_node_gravity_alignment |-> next_node.gravity_alignment,
     translation_weight |-> observation.translation_weight,
     rotation_weight |-> observation.rotation_weight,
     interpolation_parameter |-> InterpolationParameter(observation, prev_node, next_node),
     observed_from_tracking |-> observation.observed_from_tracking,
     inverse_covariance |-> IdentityCovariance]

\* The constructor: the members of a new instance.
Construct(observation, prev_node, next_node) ==
    [landmark_to_tracking_transform |-> observation.landmark_to_tracking_transform,
     prev_node_gravity_alignment |-> prev_node.gravity_alignment,
     next_node_gravity_alignment |-> next_node.gravity_alignment,
     translation_weight |-> observation.translation_weight,
     rotation_weight |-> observation.rotation_weight,
     interpolation_parameter |-> InterpolationParameter(observation, prev_node, next_node),
     observed_from_tracking |-> observation.observed_from_tracking,
     inverse_covariance |-> observation.inverse_covariance]

\* interpolated_rotation_and_translation of one call of operator().
Interpolate(m, in) ==
    InterpolateNodes2D(in.prev_node_pose, m.prev_node_gravity_alignment,
                       in.next_node_pose, m.next_node_gravity_alignment,
                       m.interpolation_parameter)

\* Variant: the two branches of the direction flag exchanged.
UnscaledErrorArgsSwapped(m, interp, in) ==
    IF m.observed_from_tracking
    THEN [relative_pose |-> m.landmark_to_tracking_transform,
          start_rotation |-> in.landmark_rotation,
          start_translation |-> in.landmark_translation,
          end_rotation |-> interp.rotation,
          end_translation |-> interp.translation]
    ELSE [relative_pose |-> m.landmark_to_tracking_transform,
          start_rotation |-> interp.rotation,
          start_translation |-> interp.translation,
          end_rotation |-> in.landmark_rotation,
          end_translation |-> in.landmark_translation]

\* Variant: the direction flag ignored, the first branch always taken.
UnscaledErrorArgsIgnoringFlag(m, interp, in) ==
    [relative_pose |-> m.landmark_to_tracking_transform,
     start_rotation |-> interp.rotation,
     start_translation |-> interp.translation,
     end_rotation |-> in.landmark_rotation,
     end_translation |-> in.landmark_translation]

\* The arguments operator() hands to ComputeUnscaledError.
UnscaledErrorArgs(m, interp, in) ==
    IF m.observed_from_tracking
    THEN [relative_pose |-> m.landmark_to_tracking_transform,
          start_rotation |-> interp.rotation,
          start_translation |-> interp.translation,
          end_rotation |-> in.landmark_rotation,
          end_translation |-> in.landmark_translation]
    ELSE [relative_pose |-> m.landmark_to_tracking_transform,
          start_rotation |-> in.landmark_rotation,
          start_translation |-> in.landmark_translation,
          end_rotation |-> interp.rotation,
          end_translation |-> interp.translation]

ApplyComputeUnscaledError(a) ==
    ComputeUnscaledError(a.relative_pose, a.start_rotation, a.start_translation,
                         a.end_rotation, a.end_translation)

\* Variant: the rotation of the previous node instead of the interpolated one.
FrameRotationPrev(m, in, interp) ==
    NodeRotation(in.prev_node_pose, m.prev_node_gravity_alignment)

\* interpolated_quaternion: the rotation operator of the frame rotation.
FrameRotation(m, in, interp) == interp.rotation

\* Variant: the whole interpolated pose applied, translation included.
RotateToENURigid(m, in, interp, error) ==
    LET v == VAdd(QRotate(FrameRotation(m, in, interp), <<error[1], error[2], error[3]>>),
                  interp.translation)
    IN  <<v[1], v[2], v[3], error[4], error[5], error[6]>>

\* "Rotate unscaled error to ENU frame" and the assignment back to error.
RotateToENU(m, in, interp, error) ==
    LET translation_error ==
            QRotate(FrameRotation(m, in, interp), <<error[1], error[2], error[3]>>)
    IN  <<translation_error[1], translation_error[2], translation_error[3],
          error[4], error[5], error[6]>>

\* Variant: the two scalar weights exchanged.
ScaleArgsSwappedWeights(m, error) ==
    [error |-> error,
     translation_weight |-> m.rotation_weight,
     rotation_weight |-> m.translation_weight,
     inverse_covariance |-> m.inverse_covariance]

\* The arguments operator() hands to ScaleErrorWithCovariance.
ScaleArgs(m, error) ==
    [error |-> error,
     translation_weight |-> m.translation_weight,
     rotation_weight |-> m.rotation_weight,
     inverse_covariance |-> m.inverse_covariance]

ApplyScaleErrorWithCovariance(a) ==
    ScaleErrorWithCovariance(a.error, a.translation_weight, a.rotation_weight,
                             a.inverse_covariance)

HasNaN(v) == \E k \in DOMAIN v : IsNaN(v[k])

\* Variant: a residual with a non-finite component is reported as a failure.
ReturnValueFinite(error) == ~HasNaN(error)

\* `return true;`
ReturnValue(error) == TRUE

\* Variant: every call works in the same static storage, slot 0.
FrameOfShared(th) == 0

\* The storage of the locals of a call: the stack frame of the calling thread.
FrameOf(th) == th

\* operator() run alone, from its inputs to the residual it writes.
Residual(m, in) ==
    LET interp == Interpolate(m, in)
        unscaled == ApplyComputeUnscaledError(UnscaledErrorArgs(m, interp, in))
        rotated == RotateToENU(m, in, interp, unscaled)
    IN  ApplyScaleErrorWithCovariance(ScaleArgs(m, rotated))


----------------------------------------------------------------------------
(* The values the model draws from.                                        *)

\* The latest observation time; node times are 0, 1 and 2 seconds, so that
\* every slerp angle is a multiple of 45 degrees.
MaxObsTime == 2

PrevTimes == {0, 1}

NextTimes == {1, 2}

ObsTimes == 0..MaxObsTime

Instances == {1, 2}

QYaw90 == <<HalfSqrt2, Zero, Zero, HalfSqrt2>>

QYaw180 == <<Zero, Zero, Zero, One>>

QFlipX == <<Zero, One, Zero, Zero>>

\* Observation payloads and node gravity alignments, drawn together.
Profiles ==
    {[landmark_to_tracking_transform |-> [translation |-> Vec(0, 0, 0), rotation |-> QIdentity],
      translation_weight |-> N(2), rotation_weight |-> N(3),
      inverse_covariance |-> IdentityCovariance,
      prev_gravity_alignment |-> QIdentity, next_gravity_alignment |-> QIdentity],
     [landmark_to_tracking_transform |-> [translation |-> Vec(1, 0, 0), rotation |-> QYaw90],
      translation_weight |-> N(1), rotation_weight |-> N(1),
      inverse_covariance |-> <<N(4), N(2), Zero, N(2), N(2), Zero, Zero, Zero, One>>,
      prev_gravity_alignment |-> QIdentity, next_gravity_alignment |-> QIdentity],
     [landmark_to_tracking_transform |-> [translation |-> Vec(0, 0, 0), rotation |-> QIdentity],
      translation_weight |-> Frac(1, 2), rotation_weight |-> Zero,
      inverse_covariance |-> <<N(4), Zero, Zero, Zero, One, Zero, Zero, Zero, N(9)>>,
      prev_gravity_alignment |-> QIdentity, next_gravity_alignment |-> QIdentity],
     [landmark_to_tracking_transform |-> [translation |-> Vec(0, 1, 0), rotation |-> QYaw180],
      translation_weight |-> N(1), rotation_weight |-> N(2),
      inverse_covariance |-> IdentityCovariance,
      prev_gravity_alignment |-> QFlipX, next_gravity_alignment |-> QIdentity]}

\* Yaw angles are counted in units of 45 degrees: 4 is a half turn, 8 a full one.
LandmarkRotations == {QIdentity, QYaw90, QYaw180}

LandmarkTranslations == {Vec(1, 0, 0), <<Frac(1, 10), Zero, Zero>>}

Block(p, n, r, t) ==
    [prev_node_pose |-> p, next_node_pose |-> n, landmark_rotation |-> r,
     landmark_translation |-> t]

\* The block whose first residual each instance remembers.
ProbeBlock == Block(Vec(0, 0, 0), Vec(1, 0, 8), QIdentity, <<Frac(1, 10), Zero, Zero>>)

\* The few blocks two concurrent evaluations are given.
FewInputs ==
    {ProbeBlock,
     Block(Vec(0, 1, 4), Vec(1, 0, 8), QYaw90, Vec(1, 0, 0))}

PrevPoses == {Vec(0, 0, 0), Vec(0, 1, 4)}

NextPoses == {Vec(1, 0, 4), Vec(1, 0, 8)}

Inputs ==
    [prev_node_pose : PrevPoses, next_node_pose : NextPoses,
     landmark_rotation : LandmarkRotations, landmark_translation : LandmarkTranslations]

BlocksOf(which) == IF which = "all" THEN Inputs ELSE FewInputs

NoFrame == [interp |-> NULL, error |-> NULL]

NoArg == [inst |-> 0, in |-> NULL]

NoTrace == [interp |-> NULL, cue |-> NULL, unscaled |-> NULL, rotated |-> NULL, scale |-> NULL]

----------------------------------------------------------------------------
(* The state.                                                              *)

VARIABLES
    observation,   \* per instance: the LandmarkObservation given to the constructor
    prev_node,     \* per instance: the previous NodeSpec2D given to the constructor
    next_node,     \* per instance: the next NodeSpec2D given to the constructor
    self,          \* per instance: its members, NULL before construction
    threads,       \* the solver threads that evaluate residual blocks
    blocks,        \* which parameter-block values the solver evaluates
    pc,            \* per thread: its position in operator()
    arg,           \* per thread: the instance and the four input blocks of its call
    frame,         \* per storage slot (0: static, th: the stack of th): the locals of operator()
    e,             \* per thread: the residual array operator() writes to
    ret,           \* per thread: the value operator() returned
    trace,         \* per thread (history): what the helpers were given and returned
    probeResult    \* per instance (history): the first residual written for ProbeBlock

vars == <<observation, prev_node, next_node, self, threads, blocks, pc, arg, frame,
          e, ret, trace, probeResult>>

Twin(o) == [o EXCEPT !.observed_from_tracking = ~@]

InitInstances(times, profiles) ==
    \E p \in profiles, tp \in times[1], tn \in times[2], to \in times[3] :
        LET o == [time |-> to,
                  landmark_to_tracking_transform |-> p.landmark_to_tracking_transform,
                  translation_weight |-> p.translation_weight,
                  rotation_weight |-> p.rotation_weight,
                  observed_from_tracking |-> TRUE,
                  inverse_covariance |-> p.inverse_covariance]
        IN  /\ observation = (1 :> o) @@ (2 :> Twin(o))
            /\ prev_node = [i \in Instances |->
                               [time |-> tp, gravity_alignment |-> p.prev_gravity_alignment]]
            /\ next_node = [i \in Instances |->
                               [time |-> tn, gravity_alignment |-> p.next_gravity_alignment]]

InitCalls ==
    /\ self = [i \in Instances |-> NULL]
    /\ pc = [th \in threads |-> "idle"]
    /\ arg = [th \in threads |-> NoArg]
    /\ frame = [f \in {0} \cup threads |-> NoFrame]
    /\ e = [th \in threads |-> NULL]
    /\ ret = [th \in threads |-> NULL]
    /\ trace = [th \in threads |-> NoTrace]
    /\ probeResult = [i \in Instances |-> NULL]

\* One solver thread, every instance and every input.
Init ==
    /\ InitInstances(<<PrevTimes, NextTimes, ObsTimes>>, Profiles)
    /\ threads = {1}
    /\ blocks = "all"
    /\ InitCalls

\* Two solver threads on one pair of instances and a few inputs.
InitConcurrent ==
    /\ InitInstances(<<{0}, {2}, {1, MaxObsTime}>>, Profiles)
    /\ threads = {1, 2}
    /\ blocks = "few"
    /\ InitCalls

----------------------------------------------------------------------------
(* The operations.                                                         *)

\* CreateAutoDiffCostFunction: `new LandmarkCostFunction2D(...)`.
CreateAutoDiffCostFunction(i) ==
    /\ self[i] = NULL
    /\ self' = [self EXCEPT ![i] = Construct(observation[i], prev_node[i], next_node[i])]
    /\ UNCHANGED <<observation, prev_node, next_node, threads, blocks, pc, arg, frame,
                   e, ret, trace, probeResult>>

\* operator(), from its entry to the initialisation of `error`: the interpolation and
\* ComputeUnscaledError.  The solver evaluates once the problem is built.
Call(th, i, in) ==
    /\ pc[th] = "idle"
    /\ \A j \in Instances : self[j] # NULL
    /\ \E interp \in {Interpolate(self[i], in)} :
       \E cue \in {UnscaledErrorArgs(self[i], interp, in)} :
       \E unscaled \in {ApplyComputeUnscaledError(cue)} :
          /\ frame' = [frame EXCEPT ![FrameOf(th)] =
                          [interp |-> interp, error |-> unscaled]]
          /\ trace' = [trace EXCEPT ![th] = [NoTrace EXCEPT !.interp = interp,
                                                            !.cue = cue,
                                                            !.unscaled = unscaled]]
    /\ arg' = [arg EXCEPT ![th] = [inst |-> i, in |-> in]]
    /\ pc' = [pc EXCEPT ![th] = "error"]
    /\ UNCHANGED <<observation, prev_node, next_node, self, threads, blocks, e, ret,
                   probeResult>>

\* operator(): the rotation of the translation error.
Rotate(th) ==
    /\ pc[th] = "error"
    /\ \E rotated \in {RotateToENU(self[arg[th].inst], arg[th].in,
                                   frame[FrameOf(th)].interp, frame[FrameOf(th)].error)} :
          /\ frame' = [frame EXCEPT ![FrameOf(th)].error = rotated]
          /\ trace' = [trace EXCEPT ![th].rotated = rotated]
    /\ pc' = [pc EXCEPT ![th] = "rotated"]
    /\ UNCHANGED <<observation, prev_node, next_node, self, threads, blocks, arg, e, ret,
                   probeResult>>

\* operator(): `error = ScaleErrorWithCovariance(...)`.
Scale(th) ==
    /\ pc[th] = "rotated"
    /\ \E a \in {ScaleArgs(self[arg[th].inst], frame[FrameOf(th)].error)} :
          /\ frame' = [frame EXCEPT ![FrameOf(th)].error = ApplyScaleErrorWithCovariance(a)]
          /\ trace' = [trace EXCEPT ![th].scale = a]
    /\ pc' = [pc EXCEPT ![th] = "scaled"]
    /\ UNCHANGED <<observation, prev_node, next_node, self, threads, blocks, arg, e, ret,
                   probeResult>>

\* operator(): `std::copy(...)` to e and `return true`.
Return(th) ==
    /\ pc[th] = "scaled"
    /\ \E error \in {frame[FrameOf(th)].error} :
          /\ e' = [e EXCEPT ![th] = error]
          /\ ret' = [ret EXCEPT ![th] = ReturnValue(error)]
          /\ probeResult' =
                IF arg[th].in = ProbeBlock /\ probeResult[arg[th].inst] = NULL
                THEN [probeResult EXCEPT ![arg[th].inst] = error]
                ELSE probeResult
    /\ pc' = [pc EXCEPT ![th] = "returned"]
    /\ UNCHANGED <<observation, prev_node, next_node, self, threads, blocks, arg, frame,
                   trace>>

\* The solver has read the residual: the call's arrays and locals are gone.
Consume(th) ==
    /\ pc[th] = "returned"
    /\ pc' = [pc EXCEPT ![th] = "idle"]
    /\ arg' = [arg EXCEPT ![th] = NoArg]
    /\ e' = [e EXCEPT ![th] = NULL]
    /\ ret' = [ret EXCEPT ![th] = NULL]
    /\ frame' = [frame EXCEPT ![th] = NoFrame]
    /\ trace' = [trace EXCEPT ![th] = NoTrace]
    /\ UNCHANGED <<observation, prev_node, next_node, self, threads, blocks, probeResult>>

Next ==
    \/ \E i \in Instances : CreateAutoDiffCostFunction(i)
    \/ \E th \in threads, i \in Instances, in \in BlocksOf(blocks) : Call(th, i, in)
    \/ \E th \in threads : Rotate(th)
    \/ \E th \in threads : Scale(th)
    \/ \E th \in threads : Return(th)
    \/ \E th \in threads : Consume(th)

Spec == Init /\ [][Next]_vars

SpecConcurrent == InitConcurrent /\ [][Next]_vars


----------------------------------------------------------------------------
(* Properties.                                                             *)

ZeroError == <<Zero, Zero, Zero, Zero, Zero, Zero>>

ZeroVec == <<Zero, Zero, Zero>>

Members(th) == self[arg[th].inst]

Constructed == {i \in Instances : self[i] # NULL}

Returned == {th \in threads : pc[th] = "returned"}

\* The interpolation parameter as the timestamps of an instance define it.
TimeRatio(i) ==
    Div(N(observation[i].time - prev_node[i].time),
        N(next_node[i].time - prev_node[i].time))

InUnitInterval(t) == ~IsNaN(t) /\ ~Less(t, Zero) /\ ~Less(One, t)

SameRotation(p, q) == p = q \/ p = QNeg(q)

\* C1: whenever ComputeUnscaledError returned the zero 6-vector, the residual
\* written to e is the zero 6-vector, whatever the weights, the inverse
\* covariance, the interpolation parameter and the direction flag are.
C1_ZeroErrorZeroResidual ==
    \A th \in Returned : trace[th].unscaled = ZeroError => e[th] = ZeroError

\* A zero unscaled error was scaled with a covariance that is not the identity.
C1_Witness ==
    \E th \in Returned :
        /\ trace[th].unscaled = ZeroError
        /\ Members(th).inverse_covariance # IdentityCovariance

\* C2: observed from tracking, ComputeUnscaledError is given the interpolated
\* pose first and the landmark estimate second; otherwise the two are given in
\* the swapped order.  Both branches pass the landmark_to_tracking_transform of
\* the observation, and the flag is the one the observation had at construction.
C2_ArgumentOrder ==
    /\ \A i \in Constructed :
          self[i].observed_from_tracking = observation[i].observed_from_tracking
    /\ \A th \in threads : trace[th].cue # NULL =>
          LET c == trace[th].cue
              interp == Interpolate(Members(th), arg[th].in)
              first == <<c.start_rotation, c.start_translation>>
              second == <<c.end_rotation, c.end_translation>>
              node == <<interp.rotation, interp.translation>>
              landmark == <<arg[th].in.landmark_rotation, arg[th].in.landmark_translation>>
          IN  /\ c.relative_pose = observation[arg[th].inst].landmark_to_tracking_transform
              /\ observation[arg[th].inst].observed_from_tracking =>
                    first = node /\ second = landmark
              /\ ~observation[arg[th].inst].observed_from_tracking =>
                    first = landmark /\ second = node

\* A call on an instance not observed from tracking, with two different poses.
C2_Witness ==
    \E th \in threads :
        /\ trace[th].cue # NULL
        /\ ~observation[arg[th].inst].observed_from_tracking
        /\ trace[th].cue.start_rotation # trace[th].cue.end_rotation
        /\ trace[th].cue.start_translation # trace[th].cue.end_translation

\* C3: the frame rotation replaces components 0..2 of the unscaled error by the
\* interpolated rotation of this call applied to them and leaves components
\* 3..5 as ComputeUnscaledError returned them.
C3_FrameRotation ==
    \A th \in threads : trace[th].rotated # NULL =>
        LET u == trace[th].unscaled
            r == trace[th].rotated
            q == Interpolate(Members(th), arg[th].in).rotation
        IN  /\ <<r[1], r[2], r[3]>> = QRotate(q, <<u[1], u[2], u[3]>>)
            /\ <<r[4], r[5], r[6]>> = <<u[4], u[5], u[6]>>

\* A rotation that is neither node's, applied to a translation error it moves.
C3_Witness ==
    \E th \in threads :
        /\ trace[th].rotated # NULL
        /\ trace[th].rotated # trace[th].unscaled
        /\ ~HasNaN(trace[th].rotated)
        /\ ~Members(th).observed_from_tracking
        /\ LET q == Interpolate(Members(th), arg[th].in).rotation
               m == Members(th)
           IN  /\ ~SameRotation(q, NodeRotation(arg[th].in.prev_node_pose,
                                                m.prev_node_gravity_alignment))
               /\ ~SameRotation(q, NodeRotation(arg[th].in.next_node_pose,
                                                m.next_node_gravity_alignment))

\* C4: every evaluation returns true and writes six residual components, also
\* when the observation time lies outside the node interval or the two node
\* times are equal; the interpolation parameter is the plain ratio, unclamped.
C4_NeverReportsError ==
    /\ \A i \in Constructed : self[i].interpolation_parameter = TimeRatio(i)
    /\ \A th \in Returned : ret[th] = TRUE /\ Len(e[th]) = 6

\* An evaluation returned although the two node times are equal.
C4_Witness ==
    \E th \in Returned :
        /\ prev_node[arg[th].inst].time = next_node[arg[th].inst].time
        /\ HasNaN(e[th])

\* C5: two evaluations of one instance on identical input blocks write identical
\* residuals, whatever was evaluated in between.
C5_Deterministic ==
    /\ \A th \in Returned :
          arg[th].in = ProbeBlock /\ probeResult[arg[th].inst] # NULL =>
              e[th] = probeResult[arg[th].inst]
    /\ \A t1 \in Returned, t2 \in Returned : arg[t1] = arg[t2] => e[t1] = e[t2]

\* Two evaluations of one instance on the same block have both returned.
C5_Witness ==
    \E t1 \in Returned, t2 \in Returned :
        /\ t1 # t2
        /\ arg[t1] = arg[t2]
        /\ arg[t1].in = ProbeBlock
        /\ ~HasNaN(e[t1])
        /\ e[t1] # ZeroError

\* C6: concurrent evaluations write no instance member and no input block, keep
\* every intermediate in the calling thread's own locals, and write to e the
\* residual the call would write if it ran alone.
C6_ConcurrentSafe ==
    /\ [](\A th \in threads :
            /\ pc[th] = "returned" => e[th] = Residual(Members(th), arg[th].in)
            /\ pc[th] = "error" =>
                   frame[th] = [interp |-> trace[th].interp, error |-> trace[th].unscaled]
            /\ pc[th] = "rotated" =>
                   frame[th] = [interp |-> trace[th].interp, error |-> trace[th].rotated])
    /\ [][/\ \A i \in Constructed : self'[i] = self[i]
          /\ \A th \in threads : pc[th] \notin {"idle", "returned"} => arg'[th] = arg[th]]_vars

\* Two evaluations are under way at once, on one instance, with different inputs.
C6_Witness ==
    /\ pc[1] = "returned"
    /\ pc[2] = "rotated"
    /\ arg[1].inst = arg[2].inst
    /\ arg[1].in # arg[2].in
    /\ ~HasNaN(e[1])

\* C7: the interpolation parameter of an instance is, in every state after its
\* construction, (observation time - prev time) / (next time - prev time); with
\* prev time < next time it is 0 exactly at the previous node's time, 1 exactly
\* at the next node's time, and in [0, 1] exactly between the two.
C7_InterpolationParameter ==
    \A i \in Constructed :
        LET t == self[i].interpolation_parameter
            o == observation[i].time
            p == prev_node[i].time
            n == next_node[i].time
        IN  /\ t = TimeRatio(i)
            /\ p < n => /\ (t = Zero) <=> (o = p)
                        /\ (t = One) <=> (o = n)
                        /\ InUnitInterval(t) <=> (p =< o /\ o =< n)

\* An instance observed strictly between its two nodes has been evaluated.
C7_Witness ==
    \E th \in Returned :
        /\ prev_node[arg[th].inst].time < observation[arg[th].inst].time
        /\ observation[arg[th].inst].time < next_node[arg[th].inst].time

C9_Aligned ==
    /\ self[1].landmark_to_tracking_transform.translation = ZeroVec
    /\ SameRotation(Interpolate(self[1], ProbeBlock).rotation, ProbeBlock.landmark_rotation)

Discrepancy(m, interp, in) ==
    IF m.observed_from_tracking
    THEN VSub(VAdd(interp.translation, m.landmark_to_tracking_transform.translation),
              in.landmark_translation)
    ELSE VSub(VAdd(in.landmark_translation, m.landmark_to_tracking_transform.translation),
              interp.translation)

AlongOneAxis(d, k) == d[k] # Zero /\ \A j \in 1..3 : j # k => d[j] = Zero

IdentityRotations(m, interp, in) ==
    /\ interp.rotation = QIdentity
    /\ in.landmark_rotation = QIdentity
    /\ m.landmark_to_tracking_transform.rotation = QIdentity

\* C10: with a translation weight w # 0, the identity inverse covariance,
\* identity rotations and a discrepancy d along one axis only, the residual is
\* w * d in that translation component and zero in the other five.
C10_WeightedTranslation ==
    \A th \in Returned :
        LET m == Members(th)
            interp == Interpolate(m, arg[th].in)
            d == Discrepancy(m, interp, arg[th].in)
        IN  \A k \in 1..3 :
                (/\ m.translation_weight # Zero
                 /\ m.inverse_covariance = IdentityCovariance
                 /\ IdentityRotations(m, interp, arg[th].in)
                 /\ ~HasNaN(d)
                 /\ AlongOneAxis(d, k))
                => /\ e[th][k] = Mul(m.translation_weight, d[k])
                   /\ \A j \in 1..6 : j # k => e[th][j] = Zero

\* The scenario of the specification: a discrepancy of 0.1 along x, a weight
\* that is neither 0 nor 1.
C10_Witness ==
    \E th \in Returned :
        LET m == Members(th)
            interp == Interpolate(m, arg[th].in)
            d == Discrepancy(m, interp, arg[th].in)
        IN  /\ m.translation_weight \notin {Zero, One}
            /\ m.translation_weight # m.rotation_weight
            /\ m.inverse_covariance = IdentityCovariance
            /\ IdentityRotations(m, interp, arg[th].in)
            /\ AlongOneAxis(d, 1)
            /\ AbsN(d[1]) = Frac(1, 10)

============================================================================
